---- MODULE Spec2Model ----
(***************************************************************************)
(* Model of server/src/common.cc of the Triton developer tools wrapper:    *)
(* the response allocator callbacks (ResponseAlloc, ResponseRelease), the  *)
(* completion callback (InferResponseComplete) with the promise/future it  *)
(* fulfils, and the enum translation tables.                               *)
(***************************************************************************)
EXTENDS Integers, Sequences, FiniteSets, TLC

\* ------------------------------------------------------------------ bounds
MaxCalls == 1        \* ResponseAlloc calls in one behaviour of Spec
MaxBuffers == 2      \* ResponseAlloc calls in one behaviour of LifecycleSpec
MaxBytes == 1        \* byte_size ranges over 0..MaxBytes
MaxDeviceId == 1     \* memory_type_id ranges over 0..MaxDeviceId

\* --------------------------------------------------------------- constants
NULL == 0            \* nullptr; heap pointers and tag pointers are 1, 2, ...
UNSET == -1          \* an out-parameter the callee has not assigned

\* TRITONSERVER_MemoryType as the callbacks receive it: the three native
\* enumerators and one value outside the enum.
NativeMemoryTypes ==
  {"TRITONSERVER_MEMORY_CPU", "TRITONSERVER_MEMORY_CPU_PINNED",
   "TRITONSERVER_MEMORY_GPU"}

NativeMemoryTypeInputs == NativeMemoryTypes \cup {"TRITONSERVER_MEMORY_<out of range>"}

\* cudaError_t values cudaSetDevice can return in the model.
CudaSetDeviceResults ==
  {"cudaSuccess", "cudaErrorNoDevice", "cudaErrorInvalidDevice"}

\* cudaError_t values cudaFreeHost / cudaFree can return in the model.
CudaFreeResults == {"cudaSuccess", "cudaErrorInvalidValue"}

TensorNames == {"OUTPUT0"}

ByteSizes == 0..MaxBytes

DeviceIds == 0..MaxDeviceId

LifecycleSizes == {0, 1}

LifecycleIds == {0}

VARIABLES
  enable_gpu,     \* TRITON_ENABLE_GPU of the build
  heap,           \* buffers ever allocated: <<[by, freedBy]>>, pointer = index
  tags,           \* std::string tag objects ever created: <<[text, deletes]>>
  outstanding,    \* results handed to the engine and not yet released
  nCalls,         \* ResponseAlloc calls made so far
  engineConforms, \* the engine passed back, so far, every tag it was given
  last,           \* what the last callback invocation did
  promise,        \* the std::promise passed as userp, with its shared state
  waiter,         \* the caller thread blocked in future.get()
  fired,          \* responses InferResponseComplete was invoked with, in order
  conv            \* the translation call last made and the out-cells it wrote

allocVars == <<enable_gpu, heap, tags, outstanding, nCalls, engineConforms, last>>

rdvVars == <<promise, waiter, fired>>

vars == <<enable_gpu, heap, tags, outstanding, nCalls, engineConforms, last,
          promise, waiter, fired, conv>>

NoCall ==
  [op |-> "none", byte_size |-> 0, memory_type |-> "TRITONSERVER_MEMORY_CPU",
   memory_type_id |-> 0, tag_in |-> NULL, ret |-> "nullptr",
   buffer |-> UNSET, buffer_userp |-> UNSET,
   actual_memory_type |-> "TRITONSERVER_MEMORY_CPU", actual_memory_type_id |-> 0,
   calls |-> <<>>, results |-> <<>>, created |-> <<>>, deleted |-> <<>>, diag |-> "none"]

SwitchCaseAnyBuild(gpu, memory_type) ==
  IF memory_type = "TRITONSERVER_MEMORY_CPU_PINNED" THEN "CPU_PINNED"
  ELSE IF memory_type = "TRITONSERVER_MEMORY_GPU" THEN "GPU"
  ELSE IF memory_type = "TRITONSERVER_MEMORY_CPU" THEN "CPU"
  ELSE "default"

\* The switch of ResponseAlloc / ResponseRelease: which case label a memory
\* type reaches in this build.
SwitchCase(gpu, memory_type) ==
  IF gpu /\ memory_type = "TRITONSERVER_MEMORY_CPU_PINNED" THEN "CPU_PINNED"
  ELSE IF gpu /\ memory_type = "TRITONSERVER_MEMORY_GPU" THEN "GPU"
  ELSE IF memory_type = "TRITONSERVER_MEMORY_CPU" THEN "CPU"
  ELSE "default"

\* cudaSetDevice results ResponseAlloc tolerates.
SetDeviceTolerated(err) ==
  err \in {"cudaSuccess", "cudaErrorNoDevice", "cudaErrorInsufficientDriver"}

ZeroSizeNever(byte_size) == FALSE

\* The test that selects the branch without allocation.
ZeroSize(byte_size) == byte_size = 0

\* ResponseAlloc as a function of its arguments, the build, the outcomes of
\* the native calls it makes, and the next free pointer / tag pointer.
\* calls and results list the native calls made and what each returned.
ResponseAlloc(gpu, tensor_name, byte_size, preferred_memory_type, preferred_memory_type_id, setDeviceErr, allocOk, newPtr, newTag) ==
  LET base == [NoCall EXCEPT !.op = "ResponseAlloc",
                             !.byte_size = byte_size,
                             !.memory_type = preferred_memory_type,
                             !.memory_type_id = preferred_memory_type_id,
                             !.actual_memory_type = preferred_memory_type,
                             !.actual_memory_type_id = preferred_memory_type_id]
      c == SwitchCase(gpu, preferred_memory_type)
      native == IF c = "CPU_PINNED" THEN "cudaHostAlloc" ELSE "cudaMalloc"
      allocated_ptr == IF allocOk THEN newPtr ELSE NULL
      done(r) ==
        IF allocated_ptr # NULL
          THEN [r EXCEPT !.buffer = allocated_ptr, !.buffer_userp = newTag,
                         !.created = <<[text |-> tensor_name, deletes |-> 0]>>]
          ELSE r
  IN IF ZeroSize(byte_size)
       THEN [base EXCEPT !.buffer = NULL, !.buffer_userp = NULL]
     ELSE IF c \in {"CPU_PINNED", "GPU"}
       THEN IF ~SetDeviceTolerated(setDeviceErr)
              THEN [base EXCEPT !.calls = <<"cudaSetDevice">>,
                                !.results = <<setDeviceErr>>,
                                !.ret = "unable to recover current CUDA device"]
            ELSE IF ~allocOk
              THEN [base EXCEPT !.calls = <<"cudaSetDevice", native>>,
                                !.results = <<setDeviceErr, "cudaErrorMemoryAllocation">>,
                                !.ret = native \o " failed"]
            ELSE done([base EXCEPT !.calls = <<"cudaSetDevice", native>>,
                                   !.results = <<setDeviceErr, "cudaSuccess">>])
     ELSE done([base EXCEPT !.actual_memory_type = "TRITONSERVER_MEMORY_CPU",
                            !.calls = <<"malloc">>,
                            !.results = <<IF allocOk THEN "pointer" ELSE "NULL">>])

\* The allocator that produced the pointer a ResponseAlloc result carries.
AllocatorOf(r) == r.calls[Len(r.calls)]

\* cudaSetDevice is called, and so has a result, only on the CUDA cases.
SetDeviceResultsFor(gpu, memory_type) ==
  IF SwitchCase(gpu, memory_type) \in {"CPU_PINNED", "GPU"}
    THEN CudaSetDeviceResults ELSE {"cudaSuccess"}

\* cudaFreeHost / cudaFree is called only after a successful cudaSetDevice.
FreeResultsFor(gpu, memory_type, setDeviceErr) ==
  IF SwitchCase(gpu, memory_type) \in {"CPU_PINNED", "GPU"}
       /\ setDeviceErr = "cudaSuccess"
    THEN CudaFreeResults ELSE {"cudaSuccess"}

\* The engine invokes the allocation callback, at most limit times, with a
\* size from sizes and a device id from ids.
AllocWith(limit, sizes, ids) ==
  /\ nCalls < limit
  /\ \E tensor_name \in TensorNames, byte_size \in sizes,
        pmt \in NativeMemoryTypeInputs, pid \in ids, allocOk \in BOOLEAN :
     \E setDeviceErr \in SetDeviceResultsFor(enable_gpu, pmt) :
       LET r == ResponseAlloc(enable_gpu, tensor_name, byte_size, pmt, pid,
                              setDeviceErr, allocOk, Len(heap) + 1, Len(tags) + 1)
       IN /\ last' = r
          /\ heap' = IF r.buffer \notin {UNSET, NULL}
                       THEN Append(heap, [by |-> AllocatorOf(r), freedBy |-> "none"])
                       ELSE heap
          /\ tags' = tags \o r.created
          /\ outstanding' =
               IF r.ret = "nullptr" /\ r.buffer \notin {UNSET, NULL}
                 THEN outstanding \cup
                        {[buffer |-> r.buffer, buffer_userp |-> r.buffer_userp,
                          byte_size |-> byte_size,
                          memory_type |-> r.actual_memory_type,
                          memory_type_id |-> r.actual_memory_type_id]}
                 ELSE outstanding
  /\ nCalls' = nCalls + 1
  /\ UNCHANGED <<enable_gpu, engineConforms, rdvVars, conv>>

\* One request with every size and device id.
Alloc == AllocWith(MaxCalls, ByteSizes, DeviceIds)

\* Several buffers in flight, one device.
LifecycleAlloc == AllocWith(MaxBuffers, LifecycleSizes, LifecycleIds)

ReleaseTagNoPlaceholder(buffer_userp, newTag) ==
  [name |-> buffer_userp, created |-> <<>>]

\* The tag ResponseRelease logs and deletes: the one passed in, or a new
\* "<unknown>" string when none was passed.
ReleaseTag(buffer_userp, newTag) ==
  IF buffer_userp # NULL
    THEN [name |-> buffer_userp, created |-> <<>>]
    ELSE [name |-> newTag, created |-> <<[text |-> "<unknown>", deletes |-> 0]>>]

\* ResponseRelease as a function of its arguments, the build, the outcomes
\* of the native calls it makes, and the next free tag pointer.
ResponseRelease(gpu, buffer, buffer_userp, byte_size, memory_type, memory_type_id, setDeviceErr, freeErr, newTag) ==
  LET tag == ReleaseTag(buffer_userp, newTag)
      base == [NoCall EXCEPT !.op = "ResponseRelease",
                             !.byte_size = byte_size,
                             !.memory_type = memory_type,
                             !.memory_type_id = memory_type_id,
                             !.tag_in = buffer_userp,
                             !.buffer = buffer,
                             !.buffer_userp = tag.name,
                             !.actual_memory_type = memory_type,
                             !.actual_memory_type_id = memory_type_id,
                             !.created = tag.created,
                             !.deleted = <<tag.name>>]
      c == SwitchCase(gpu, memory_type)
      native == IF c = "CPU_PINNED" THEN "cudaFreeHost" ELSE "cudaFree"
  IN IF c = "CPU"
       THEN [base EXCEPT !.calls = <<"free">>, !.results = <<"void">>]
     ELSE IF c \in {"CPU_PINNED", "GPU"}
       THEN IF setDeviceErr = "cudaSuccess"
              THEN [base EXCEPT !.calls = <<"cudaSetDevice", native>>,
                                !.results = <<setDeviceErr, freeErr>>,
                                !.diag = IF freeErr # "cudaSuccess"
                                           THEN "error: failed to cudaFree"
                                           ELSE "none"]
              ELSE [base EXCEPT !.calls = <<"cudaSetDevice">>,
                                !.results = <<setDeviceErr>>,
                                !.diag = "error: failed to cudaFree"]
     ELSE [base EXCEPT !.diag =
             "error: unexpected buffer allocated in CUDA managed memory"]

Deallocators == {"free", "cudaFreeHost", "cudaFree"}

\* The deallocator a ResponseRelease invocation applied to its buffer, if any.
DeallocatorOf(r) ==
  IF r.calls # <<>> /\ r.calls[Len(r.calls)] \in Deallocators
    THEN r.calls[Len(r.calls)] ELSE "none"

\* delete name: one more delete of each tag object in ds.
DeleteTagsNone(ts, ds) == ts

DeleteTags(ts, ds) ==
  [i \in 1..Len(ts) |->
     IF \E k \in 1..Len(ds) : ds[k] = i
       THEN [ts[i] EXCEPT !.deletes = @ + 1] ELSE ts[i]]

\* The engine invokes the release callback for a result it holds.
Release ==
  \E rec \in outstanding : \E tag_in \in {rec.buffer_userp, NULL},
     memory_type \in NativeMemoryTypeInputs :
   \E setDeviceErr \in SetDeviceResultsFor(enable_gpu, memory_type) :
   \E freeErr \in FreeResultsFor(enable_gpu, memory_type, setDeviceErr) :
    LET r == ResponseRelease(enable_gpu, rec.buffer, tag_in, rec.byte_size,
                             memory_type, rec.memory_type_id, setDeviceErr,
                             freeErr, Len(tags) + 1)
    IN /\ last' = r
       /\ tags' = DeleteTags(tags \o r.created, r.deleted)
       /\ heap' = IF rec.buffer # NULL /\ DeallocatorOf(r) # "none"
                       /\ (DeallocatorOf(r) = "free" \/ freeErr = "cudaSuccess")
                    THEN [heap EXCEPT ![rec.buffer].freedBy = DeallocatorOf(r)]
                    ELSE heap
       /\ outstanding' = outstanding \ {rec}
       /\ engineConforms' = (engineConforms /\ tag_in = rec.buffer_userp)
       /\ UNCHANGED <<enable_gpu, nCalls, rdvVars, conv>>

\* --------------------------------------------------- completion rendezvous
MaxFirings == 3      \* InferResponseComplete invocations in one behaviour

nullptr == "nullptr"

Responses == {"response1", "response2"}

\* What a non-null firing on an already deleted promise may do: the access
\* is undefined, so the process may abort, nothing visible may happen, or the
\* shared state may be written again.
UseAfterFreeOutcomes == {"abort", "silent", "overwrite"}

NewPromise ==
  [alive |-> TRUE, fulfilled |-> 0, value |-> nullptr, deletes |-> 0,
   uaf |-> FALSE, aborted |-> FALSE]

NewWaiter == [state |-> "waiting", value |-> nullptr]

InferResponseCompleteNoDelete(p, response, ub) ==
  IF response # nullptr
    THEN [p EXCEPT !.fulfilled = @ + 1, !.value = response]
    ELSE p

InferResponseCompleteUnchecked(p, response, ub) ==
  IF p.alive
    THEN [p EXCEPT !.fulfilled = @ + 1, !.value = response,
                   !.alive = FALSE, !.deletes = @ + 1]
    ELSE [p EXCEPT !.uaf = TRUE, !.deletes = @ + 1,
                   !.aborted = (ub = "abort")]

InferResponseCompleteNoSet(p, response, ub) ==
  IF response # nullptr
    THEN IF p.alive
           THEN [p EXCEPT !.alive = FALSE, !.deletes = @ + 1]
           ELSE [p EXCEPT !.uaf = TRUE, !.deletes = @ + 1,
                          !.aborted = (ub = "abort")]
    ELSE p

\* InferResponseComplete on promise p (userp) with the given response; ub is
\* the outcome taken when p was deleted by an earlier call.
InferResponseComplete(p, response, ub) ==
  IF response # nullptr
    THEN IF p.alive
           THEN [p EXCEPT !.fulfilled = @ + 1, !.value = response,
                          !.alive = FALSE, !.deletes = @ + 1]
           ELSE [p EXCEPT !.uaf = TRUE, !.deletes = @ + 1,
                          !.aborted = (ub = "abort"),
                          !.fulfilled = IF ub = "overwrite" THEN @ + 1 ELSE @,
                          !.value = IF ub = "overwrite" THEN response ELSE @]
    ELSE p

\* The completion thread invokes the callback.
Fire ==
  /\ Len(fired) < MaxFirings
  /\ ~promise.aborted
  /\ \E response \in Responses \cup {nullptr}, ub \in UseAfterFreeOutcomes :
       /\ promise' = InferResponseComplete(promise, response, ub)
       /\ fired' = Append(fired, response)
  /\ UNCHANGED <<waiter, allocVars, conv>>

\* future.get() returns in the caller thread once the shared state is ready.
WaiterGet ==
  /\ waiter.state = "waiting"
  /\ promise.fulfilled > 0
  /\ ~promise.aborted
  /\ waiter' = [state |-> "done", value |-> promise.value]
  /\ UNCHANGED <<promise, fired, allocVars, conv>>

\* ------------------------------------------------------ translation tables
MaxConvCalls == 2    \* translation calls in one behaviour
MaxEnumValue == 3    \* wrapper enum arguments range over -1..MaxEnumValue

\* enum MemoryType { CPU, CPU_PINNED, GPU }
CPU == 0
CPU_PINNED == 1
GPU == 2

\* enum ModelControlMode
MODEL_CONTROL_NONE == 0
MODEL_CONTROL_POLL == 1
MODEL_CONTROL_EXPLICIT == 2

\* enum LogFormat { LOG_DEFAULT, LOG_ISO8601 }
LOG_DEFAULT == 0
LOG_ISO8601 == 1

EnumInputs == (0 - 1)..MaxEnumValue

\* Error::Success and Error::IsOk
Success == ""

IsOk(err) == err = ""

\* Each translation takes the current content of its out-parameter and
\* returns the Error message with the content the out-parameter then has.
ToTritonModelControlMode(model_control_mode, mode) ==
  CASE mode = MODEL_CONTROL_NONE ->
         [err |-> Success, out |-> "TRITONSERVER_MODEL_CONTROL_NONE"]
    [] mode = MODEL_CONTROL_POLL ->
         [err |-> Success, out |-> "TRITONSERVER_MODEL_CONTROL_POLL"]
    [] mode = MODEL_CONTROL_EXPLICIT ->
         [err |-> Success, out |-> "TRITONSERVER_MODEL_CONTROL_EXPLICIT"]
    [] OTHER ->
         [err |-> "unsupported model control mode.", out |-> model_control_mode]

ToTritonLogFormatNoDefault(log_format, format) ==
  CASE format = LOG_DEFAULT ->
         [err |-> Success, out |-> "TRITONSERVER_LOG_DEFAULT"]
    [] format = LOG_ISO8601 ->
         [err |-> Success, out |-> "TRITONSERVER_LOG_ISO8601"]
    [] OTHER ->
         [err |-> Success, out |-> log_format]

ToTritonLogFormat(log_format, format) ==
  CASE format = LOG_DEFAULT ->
         [err |-> Success, out |-> "TRITONSERVER_LOG_DEFAULT"]
    [] format = LOG_ISO8601 ->
         [err |-> Success, out |-> "TRITONSERVER_LOG_ISO8601"]
    [] OTHER ->
         [err |-> "unsupported log format.", out |-> log_format]

ToTritonMemoryTypeSwapped(memory_type, mem_type) ==
  CASE mem_type = CPU ->
         [err |-> Success, out |-> "TRITONSERVER_MEMORY_CPU"]
    [] mem_type = CPU_PINNED ->
         [err |-> Success, out |-> "TRITONSERVER_MEMORY_GPU"]
    [] mem_type = GPU ->
         [err |-> Success, out |-> "TRITONSERVER_MEMORY_CPU_PINNED"]
    [] OTHER ->
         [err |-> "unsupported memory type.", out |-> memory_type]

ToTritonMemoryType(memory_type, mem_type) ==
  CASE mem_type = CPU ->
         [err |-> Success, out |-> "TRITONSERVER_MEMORY_CPU"]
    [] mem_type = CPU_PINNED ->
         [err |-> Success, out |-> "TRITONSERVER_MEMORY_CPU_PINNED"]
    [] mem_type = GPU ->
         [err |-> Success, out |-> "TRITONSERVER_MEMORY_GPU"]
    [] OTHER ->
         [err |-> "unsupported memory type.", out |-> memory_type]

ToMemoryType(memory_type, mem_type) ==
  CASE mem_type = "TRITONSERVER_MEMORY_CPU" ->
         [err |-> Success, out |-> CPU]
    [] mem_type = "TRITONSERVER_MEMORY_CPU_PINNED" ->
         [err |-> Success, out |-> CPU_PINNED]
    [] mem_type = "TRITONSERVER_MEMORY_GPU" ->
         [err |-> Success, out |-> GPU]
    [] OTHER ->
         [err |-> "unsupported memory type.", out |-> memory_type]

MemoryTypeStringFallThrough(memory_type) ==
  CASE memory_type = CPU -> "CPU"
    [] memory_type = CPU_PINNED -> "GPU"
    [] memory_type = GPU -> "GPU"
    [] OTHER -> "<invalid>"

MemoryTypeString(memory_type) ==
  CASE memory_type = CPU -> "CPU"
    [] memory_type = CPU_PINNED -> "CPU_PINNED"
    [] memory_type = GPU -> "GPU"
    [] OTHER -> "<invalid>"

\* The 14 data types, in the order of the if-chain of ToTritonDataType.
DataTypeNames ==
  <<"BOOL", "UINT8", "UINT16", "UINT32", "UINT64", "INT8", "INT16", "INT32",
    "INT64", "FP16", "FP32", "FP64", "BYTES", "BF16">>

\* The if-chain of ToTritonDataType: the two strings each branch compares
\* data_type with, and the value the branch assigns.
DataTypeTable ==
  <<
     <<"BOOL", "TYPE_BOOL", "TRITONSERVER_TYPE_BOOL">>,
     <<"UINT8", "TYPE_UINT8", "TRITONSERVER_TYPE_UINT8">>,
     <<"UINT16", "TYPE_UINT16", "TRITONSERVER_TYPE_UINT16">>,
     <<"UINT32", "TYPE_UINT32", "TRITONSERVER_TYPE_UINT32">>,
     <<"UINT64", "TYPE_UINT64", "TRITONSERVER_TYPE_UINT64">>,
     <<"INT8", "TYPE_INT8", "TRITONSERVER_TYPE_INT8">>,
     <<"INT16", "TYPE_INT16", "TRITONSERVER_TYPE_INT16">>,
     <<"INT32", "TYPE_INT32", "TRITONSERVER_TYPE_INT32">>,
     <<"INT64", "TYPE_INT64", "TRITONSERVER_TYPE_INT64">>,
     <<"FP16", "TYPE_FP16", "TRITONSERVER_TYPE_FP16">>,
     <<"FP32", "TYPE_FP32", "TRITONSERVER_TYPE_FP32">>,
     <<"FP64", "TYPE_FP64", "TRITONSERVER_TYPE_FP64">>,
     <<"BYTES", "TYPE_STRING", "TRITONSERVER_TYPE_BYTES">>,
     <<"BF16", "TYPE_BF16", "TRITONSERVER_TYPE_BF16">>
  >>

\* Strings ToTritonDataType is called with: every string of the table, the
\* TYPE_ form of every name, and strings no branch compares with.
DataTypeInputs ==
  {DataTypeTable[i][1] : i \in 1..Len(DataTypeTable)}
    \cup {DataTypeTable[i][2] : i \in 1..Len(DataTypeTable)}
    \cup {"TYPE_" \o DataTypeNames[i] : i \in 1..Len(DataTypeNames)}
    \cup {"", "bool", "Bool", "type_bool", "TYPE_bool", "fp16", "bytes",
          "STRING", "INVALID", "TYPE_INVALID", "BOOL ", "INT"}

ToTritonDataTypeUniform(dtype, data_type) ==
  LET hits == {i \in 1..Len(DataTypeNames) :
                 data_type \in {DataTypeNames[i], "TYPE_" \o DataTypeNames[i]}}
  IN IF hits # {}
       THEN [err |-> Success,
             out |-> "TRITONSERVER_TYPE_" \o DataTypeNames[CHOOSE i \in hits : TRUE]]
       ELSE [err |-> Success, out |-> "TRITONSERVER_TYPE_INVALID"]

\* ToTritonDataType: the first branch whose comparison succeeds assigns
\* *dtype; the final else assigns TRITONSERVER_TYPE_INVALID.
ToTritonDataType(dtype, data_type) ==
  LET hits == {i \in 1..Len(DataTypeTable) :
                 data_type = DataTypeTable[i][1] \/ data_type = DataTypeTable[i][2]}
      first == CHOOSE i \in hits : \A j \in hits : i <= j
  IN IF hits # {}
       THEN [err |-> Success, out |-> DataTypeTable[first][3]]
       ELSE [err |-> Success, out |-> "TRITONSERVER_TYPE_INVALID"]

NoConv ==
  [fn |-> "none", in |-> UNSET, in_native |-> "none", err |-> Success, err2 |-> Success, n |-> 0,
   model_control_mode |-> "unset", log_format |-> "unset",
   triton_memory_type |-> "unset", memory_type |-> UNSET, str |-> "",
   dtype |-> "unset"]

ConvCall(fn, in, in_native) ==
  [conv EXCEPT !.fn = fn, !.in = in, !.in_native = in_native, !.n = @ + 1,
               !.err = Success, !.err2 = Success]

CallToTritonModelControlMode ==
  \E mode \in EnumInputs :
    LET r == ToTritonModelControlMode(conv.model_control_mode, mode)
    IN conv' = [ConvCall("ToTritonModelControlMode", mode, "none")
                  EXCEPT !.err = r.err, !.model_control_mode = r.out]

CallToTritonLogFormat ==
  \E format \in EnumInputs :
    LET r == ToTritonLogFormat(conv.log_format, format)
    IN conv' = [ConvCall("ToTritonLogFormat", format, "none")
                  EXCEPT !.err = r.err, !.log_format = r.out]

CallToTritonDataType ==
  \E data_type \in DataTypeInputs :
    LET r == ToTritonDataType(conv.dtype, data_type)
    IN conv' = [ConvCall("ToTritonDataType", UNSET, data_type)
                  EXCEPT !.err = r.err, !.dtype = r.out]

CallToTritonMemoryType ==
  \E mem_type \in EnumInputs :
    LET r == ToTritonMemoryType(conv.triton_memory_type, mem_type)
    IN conv' = [ConvCall("ToTritonMemoryType", mem_type, "none")
                  EXCEPT !.err = r.err, !.triton_memory_type = r.out]

CallToMemoryType ==
  \E mem_type \in NativeMemoryTypeInputs :
    LET r == ToMemoryType(conv.memory_type, mem_type)
    IN conv' = [ConvCall("ToMemoryType", UNSET, mem_type)
                  EXCEPT !.err = r.err, !.memory_type = r.out]

CallMemoryTypeString ==
  \E memory_type \in EnumInputs :
    conv' = [ConvCall("MemoryTypeString", memory_type, "none")
               EXCEPT !.str = MemoryTypeString(memory_type)]

\* A caller maps a wrapper value to the native enum and, when that succeeded,
\* maps the result back.
WrapperRoundTrip ==
  \E mem_type \in EnumInputs :
    LET a == ToTritonMemoryType(conv.triton_memory_type, mem_type)
        b == ToMemoryType(conv.memory_type, a.out)
    IN conv' = [ConvCall("ToTritonMemoryType;ToMemoryType", mem_type, "none")
                  EXCEPT !.err = a.err, !.triton_memory_type = a.out,
                         !.err2 = IF IsOk(a.err) THEN b.err ELSE "not called",
                         !.memory_type = IF IsOk(a.err) THEN b.out ELSE @]

\* A caller maps a native value to the wrapper enum and, when that succeeded,
\* maps the result back.
NativeRoundTrip ==
  \E mem_type \in NativeMemoryTypeInputs :
    LET a == ToMemoryType(conv.memory_type, mem_type)
        b == ToTritonMemoryType(conv.triton_memory_type, a.out)
    IN conv' = [ConvCall("ToMemoryType;ToTritonMemoryType", UNSET, mem_type)
                  EXCEPT !.err = a.err, !.memory_type = a.out,
                         !.err2 = IF IsOk(a.err) THEN b.err ELSE "not called",
                         !.triton_memory_type = IF IsOk(a.err) THEN b.out ELSE @]

Convert ==
  /\ conv.n < MaxConvCalls
  /\ \/ CallToTritonModelControlMode
     \/ CallToTritonLogFormat
     \/ CallToTritonDataType
     \/ CallToTritonMemoryType
     \/ CallToMemoryType
     \/ CallMemoryTypeString
     \/ WrapperRoundTrip
     \/ NativeRoundTrip
  /\ UNCHANGED <<allocVars, rdvVars>>

AllocIdle ==
  /\ heap = <<>>
  /\ tags = <<>>
  /\ outstanding = {}
  /\ nCalls = 0
  /\ engineConforms = TRUE
  /\ last = NoCall

RendezvousIdle ==
  /\ promise = NewPromise
  /\ waiter = NewWaiter
  /\ fired = <<>>

Init ==
  /\ enable_gpu \in BOOLEAN
  /\ AllocIdle
  /\ RendezvousIdle
  /\ conv = NoConv

Next == Alloc \/ Release

Spec == Init /\ [][Next]_vars

LifecycleNext == LifecycleAlloc \/ Release

LifecycleSpec == Init /\ [][LifecycleNext]_vars

RendezvousInit ==
  /\ enable_gpu = FALSE
  /\ AllocIdle
  /\ RendezvousIdle
  /\ conv = NoConv

RendezvousNext == Fire \/ WaiterGet

RendezvousSpec == RendezvousInit /\ [][RendezvousNext]_vars

FairRendezvousSpec == RendezvousSpec /\ WF_vars(WaiterGet)

ConvSpec == RendezvousInit /\ [][Convert]_vars

\* ------------------------------------------------------------------ claims
TagHeld(t) == \E rec \in outstanding : rec.buffer_userp = t

\* C1: ResponseAlloc creates a tag exactly when it hands back a non-null
\* buffer; no tag is ever deleted twice; and while the engine passes back
\* the tags it was given, there is one tag per buffer, a tag is undeleted
\* exactly while its buffer is still held by the engine and deleted exactly
\* once afterwards, so no tag remains once every buffer has been released.
C1_TagLifecycle ==
  /\ last.op = "ResponseAlloc" =>
       ((last.created # <<>>) <=> (last.buffer \notin {UNSET, NULL}))
  /\ \A t \in 1..Len(tags) : tags[t].deletes <= 1
  /\ engineConforms =>
       /\ Len(tags) = Len(heap)
       /\ \A t \in 1..Len(tags) :
            tags[t].deletes = (IF TagHeld(t) THEN 0 ELSE 1)

C1_Witness ==
  /\ engineConforms
  /\ Len(heap) = 2
  /\ outstanding = {}
  /\ last.op = "ResponseRelease"
  /\ \A t \in 1..Len(tags) : tags[t].deletes = 1

\* C2: a ResponseAlloc call with byte_size = 0 sets buffer and tag to null,
\* makes no native call (no allocator, no cudaSetDevice), creates no tag and
\* returns success, for every preferred memory type and device id.
C2_ZeroByteAlloc ==
  (last.op = "ResponseAlloc" /\ last.byte_size = 0) =>
    /\ last.buffer = NULL
    /\ last.buffer_userp = NULL
    /\ last.calls = <<>>
    /\ last.created = <<>>
    /\ last.ret = "nullptr"

C2_Witness ==
  /\ enable_gpu
  /\ last.op = "ResponseAlloc"
  /\ last.byte_size = 0
  /\ last.memory_type = "TRITONSERVER_MEMORY_GPU"
  /\ last.memory_type_id = 1
  /\ last.buffer = NULL

\* C3 as stated: a ResponseAlloc call with byte_size > 0 that returns success
\* hands back a non-null buffer and a non-null tag and reports one of the
\* three supported memory types.
C3_SuccessfulAllocNonNull ==
  (last.op = "ResponseAlloc" /\ last.byte_size > 0 /\ last.ret = "nullptr") =>
    /\ last.buffer \notin {UNSET, NULL}
    /\ last.buffer_userp \notin {UNSET, NULL}
    /\ last.actual_memory_type \in NativeMemoryTypes

\* C4 as stated: in a ResponseAlloc call with byte_size > 0 every failed
\* cudaSetDevice and every failed allocation (malloc, cudaHostAlloc,
\* cudaMalloc) makes the call return an error, a failed cudaSetDevice is the
\* last native call made, and a call that returns an error leaves no buffer
\* and no tag.
C4_AllocFailuresReported ==
  (last.op = "ResponseAlloc" /\ last.byte_size > 0) =>
    /\ \A i \in 1..Len(last.calls) :
         (last.calls[i] = "cudaSetDevice" /\ last.results[i] # "cudaSuccess") =>
           (last.ret # "nullptr" /\ i = Len(last.calls))
    /\ \A i \in 1..Len(last.calls) :
         (last.calls[i] \in {"malloc", "cudaHostAlloc", "cudaMalloc"}
            /\ last.results[i] \in {"NULL", "cudaErrorMemoryAllocation"}) =>
           last.ret # "nullptr"
    /\ last.ret # "nullptr" => (last.buffer = UNSET /\ last.created = <<>>)

NonNullFirings(f) == {i \in 1..Len(f) : f[i] # nullptr}

\* C5: after any sequence of firings with at most one non-null response the
\* promise has been fulfilled once if a non-null response was fired and never
\* otherwise; a firing with a null response changes neither the promise nor
\* the waiter.
C5_FulfilledOncePerResponse ==
  [][/\ Cardinality(NonNullFirings(fired')) <= 1 =>
          promise'.fulfilled = Cardinality(NonNullFirings(fired'))
     /\ fired' = Append(fired, nullptr) => UNCHANGED <<promise, waiter>>]_vars

C5_Witness ==
  /\ fired = <<nullptr, "response1", nullptr>>
  /\ promise.fulfilled = 1
  /\ promise.value = "response1"

\* C6: the waiter returns from future.get() only after a non-null response
\* was fired; as long as no deleted promise was accessed, the value it reads
\* is the non-null response fired; and once a non-null response has been
\* fired the waiter eventually returns, unless a later access to the deleted
\* promise aborts the process.
C6_WaiterReleased ==
  /\ [](waiter.state = "done" => NonNullFirings(fired) # {})
  /\ []((waiter.state = "done" /\ ~promise.uaf) =>
          \A i \in NonNullFirings(fired) : waiter.value = fired[i])
  /\ (NonNullFirings(fired) # {}) ~> (waiter.state = "done" \/ promise.aborted)

C6_Witness ==
  /\ fired = <<nullptr, "response2">>
  /\ waiter.state = "done"
  /\ waiter.value = "response2"
  /\ ~promise.uaf

\* C7: every ResponseRelease call deletes exactly one tag object and leaves
\* every other tag untouched: the tag passed in when it is non-null, and
\* otherwise a "<unknown>" string the call itself creates; this holds for
\* every memory type and whether or not the native deallocation succeeds.
C7_ReleaseFreesOneTag ==
  [][(last'.op = "ResponseRelease" /\ outstanding' # outstanding) =>
       LET t == IF last'.tag_in # NULL THEN last'.tag_in ELSE Len(tags) + 1
       IN /\ last'.deleted = <<t>>
          /\ Len(tags') = (IF last'.tag_in # NULL THEN Len(tags) ELSE Len(tags) + 1)
          /\ last'.tag_in = NULL => tags'[t].text = "<unknown>"
          /\ tags'[t].deletes = (IF t <= Len(tags) THEN tags[t].deletes ELSE 0) + 1
          /\ \A u \in (1..Len(tags)) \ {t} : tags'[u] = tags[u]]_vars

C7_Witness ==
  /\ last.op = "ResponseRelease"
  /\ last.tag_in = NULL
  /\ last.diag = "error: failed to cudaFree"
  /\ tags[last.buffer_userp].text = "<unknown>"
  /\ tags[last.buffer_userp].deletes = 1
  /\ \E rec \in outstanding : tags[rec.buffer_userp].deletes = 0

DeallocatorsInvoked(r) ==
  LET IsDeallocator(c) == c \in Deallocators IN SelectSeq(r.calls, IsDeallocator)

\* C8 as stated: ResponseRelease returns success in every case; for a memory
\* type the build supports it invokes exactly the matching deallocator (CPU:
\* free, CPU_PINNED: cudaFreeHost, GPU: cudaFree); for any other memory type
\* it invokes no deallocator and emits the unexpected-buffer diagnostic.
C8_ReleaseDispatch ==
  last.op = "ResponseRelease" =>
    /\ last.ret = "nullptr"
    /\ LET c == SwitchCase(enable_gpu, last.memory_type)
       IN /\ c = "CPU" => DeallocatorsInvoked(last) = <<"free">>
          /\ c = "CPU_PINNED" => DeallocatorsInvoked(last) = <<"cudaFreeHost">>
          /\ c = "GPU" => DeallocatorsInvoked(last) = <<"cudaFree">>
          /\ c = "default" =>
               /\ DeallocatorsInvoked(last) = <<>>
               /\ last.diag =
                    "error: unexpected buffer allocated in CUDA managed memory"

Unrecognized(gpu, memory_type) ==
  \/ memory_type \notin NativeMemoryTypes
  \/ ~gpu /\ memory_type \in {"TRITONSERVER_MEMORY_CPU_PINNED",
                              "TRITONSERVER_MEMORY_GPU"}

\* C9: a ResponseAlloc call with byte_size > 0 whose preferred memory type
\* the build does not recognize returns success, calls malloc and nothing
\* else, reports TRITONSERVER_MEMORY_CPU as the actual memory type and the
\* preferred device id as the actual device id, and a buffer it hands back
\* is a malloc buffer.
C9_UnrecognizedFallsBackToHost ==
  (last.op = "ResponseAlloc" /\ last.byte_size > 0
     /\ Unrecognized(enable_gpu, last.memory_type)) =>
    /\ last.ret = "nullptr"
    /\ last.calls = <<"malloc">>
    /\ last.actual_memory_type = "TRITONSERVER_MEMORY_CPU"
    /\ last.actual_memory_type_id = last.memory_type_id
    /\ last.buffer \notin {UNSET, NULL} => heap[last.buffer].by = "malloc"

C9_Witness ==
  /\ ~enable_gpu
  /\ last.op = "ResponseAlloc"
  /\ last.byte_size > 0
  /\ last.memory_type = "TRITONSERVER_MEMORY_CPU_PINNED"
  /\ last.memory_type_id = 1
  /\ last.actual_memory_type_id = 1
  /\ last.buffer \notin {UNSET, NULL}

\* C10: for CPU, CPU_PINNED and GPU, ToTritonMemoryType followed by
\* ToMemoryType succeeds at both steps and gives back the wrapper value; for
\* the three native values, ToMemoryType followed by ToTritonMemoryType
\* succeeds at both steps and gives back the native value.
C10_MemoryTypeRoundTrip ==
  /\ (conv.fn = "ToTritonMemoryType;ToMemoryType" /\ conv.in \in {CPU, CPU_PINNED, GPU}) =>
       (IsOk(conv.err) /\ IsOk(conv.err2) /\ conv.memory_type = conv.in)
  /\ (conv.fn = "ToMemoryType;ToTritonMemoryType" /\ conv.in_native \in NativeMemoryTypes) =>
       (IsOk(conv.err) /\ IsOk(conv.err2) /\ conv.triton_memory_type = conv.in_native)

C10_Witness ==
  /\ conv.fn = "ToTritonMemoryType;ToMemoryType"
  /\ conv.in = GPU
  /\ conv.triton_memory_type = "TRITONSERVER_MEMORY_GPU"
  /\ conv.memory_type = GPU
  /\ conv.n = 2

DataTypeIndexes == 1..Len(DataTypeNames)

\* C11 as stated: ToTritonDataType returns success for every string, maps
\* NAME and TYPE_NAME to TRITONSERVER_TYPE_NAME for each of the 14 names, and
\* maps every other string to TRITONSERVER_TYPE_INVALID.
C11_BothSpellingsSameToken ==
  conv.fn = "ToTritonDataType" =>
    /\ IsOk(conv.err)
    /\ \A i \in DataTypeIndexes :
         conv.in_native \in {DataTypeNames[i], "TYPE_" \o DataTypeNames[i]} =>
           conv.dtype = "TRITONSERVER_TYPE_" \o DataTypeNames[i]
    /\ (\A i \in DataTypeIndexes :
          conv.in_native \notin {DataTypeNames[i], "TYPE_" \o DataTypeNames[i]}) =>
         conv.dtype = "TRITONSERVER_TYPE_INVALID"

\* The prefixed spelling of a data type: TYPE_STRING for BYTES, TYPE_NAME for
\* the other 13.
PrefixedSpelling(name) == IF name = "BYTES" THEN "TYPE_STRING" ELSE "TYPE_" \o name

\* C11 as amended: ToTritonDataType returns success for every string; for
\* each of the 14 names it maps the short token and the prefixed token to
\* that type, where the prefixed token is TYPE_NAME for 13 types and
\* TYPE_STRING for BYTES; every other string, TYPE_BYTES and every case
\* variant included, maps to TRITONSERVER_TYPE_INVALID.
C11_TwoSpellingsPerType ==
  conv.fn = "ToTritonDataType" =>
    /\ IsOk(conv.err)
    /\ \A i \in DataTypeIndexes :
         conv.in_native \in {DataTypeNames[i], PrefixedSpelling(DataTypeNames[i])} =>
           conv.dtype = "TRITONSERVER_TYPE_" \o DataTypeNames[i]
    /\ (\A i \in DataTypeIndexes :
          conv.in_native \notin {DataTypeNames[i], PrefixedSpelling(DataTypeNames[i])}) =>
         conv.dtype = "TRITONSERVER_TYPE_INVALID"

C11_Witness ==
  /\ conv.fn = "ToTritonDataType"
  /\ conv.in_native = "TYPE_STRING"
  /\ conv.dtype = "TRITONSERVER_TYPE_BYTES"
  /\ conv.n = 2

\* C12: ToTritonModelControlMode, ToTritonLogFormat, ToTritonMemoryType and
\* ToMemoryType return, for every argument that is one of their enum's
\* values, an Error with IsOk() true and write the corresponding value; for
\* every other argument they return an Error with a non-empty message and
\* IsOk() false.
C12_EnumMappingErrors ==
  /\ conv.fn = "ToTritonModelControlMode" =>
       /\ conv.in = 0 => (IsOk(conv.err) /\ conv.model_control_mode = "TRITONSERVER_MODEL_CONTROL_NONE")
       /\ conv.in = 1 => (IsOk(conv.err) /\ conv.model_control_mode = "TRITONSERVER_MODEL_CONTROL_POLL")
       /\ conv.in = 2 => (IsOk(conv.err) /\ conv.model_control_mode = "TRITONSERVER_MODEL_CONTROL_EXPLICIT")
       /\ conv.in \notin 0..2 => (conv.err # "" /\ ~IsOk(conv.err))
  /\ conv.fn = "ToTritonLogFormat" =>
       /\ conv.in = 0 => (IsOk(conv.err) /\ conv.log_format = "TRITONSERVER_LOG_DEFAULT")
       /\ conv.in = 1 => (IsOk(conv.err) /\ conv.log_format = "TRITONSERVER_LOG_ISO8601")
       /\ conv.in \notin 0..1 => (conv.err # "" /\ ~IsOk(conv.err))
  /\ conv.fn = "ToTritonMemoryType" =>
       /\ conv.in = 0 => (IsOk(conv.err) /\ conv.triton_memory_type = "TRITONSERVER_MEMORY_CPU")
       /\ conv.in = 1 => (IsOk(conv.err) /\ conv.triton_memory_type = "TRITONSERVER_MEMORY_CPU_PINNED")
       /\ conv.in = 2 => (IsOk(conv.err) /\ conv.triton_memory_type = "TRITONSERVER_MEMORY_GPU")
       /\ conv.in \notin 0..2 => (conv.err # "" /\ ~IsOk(conv.err))
  /\ conv.fn = "ToMemoryType" =>
       /\ conv.in_native = "TRITONSERVER_MEMORY_CPU" => (IsOk(conv.err) /\ conv.memory_type = 0)
       /\ conv.in_native = "TRITONSERVER_MEMORY_CPU_PINNED" => (IsOk(conv.err) /\ conv.memory_type = 1)
       /\ conv.in_native = "TRITONSERVER_MEMORY_GPU" => (IsOk(conv.err) /\ conv.memory_type = 2)
       /\ conv.in_native \notin NativeMemoryTypes => (conv.err # "" /\ ~IsOk(conv.err))

C12_Witness ==
  /\ conv.fn = "ToTritonLogFormat"
  /\ conv.in = 2
  /\ conv.err = "unsupported log format."
  /\ conv.log_format = "TRITONSERVER_LOG_ISO8601"

\* C13: MemoryTypeString returns "CPU" for CPU, "CPU_PINNED" for CPU_PINNED,
\* "GPU" for GPU and "<invalid>" for every other value; the four strings are
\* pairwise distinct.
C13_MemoryTypeString ==
  /\ conv.fn = "MemoryTypeString" =>
       /\ conv.in = 0 => conv.str = "CPU"
       /\ conv.in = 1 => conv.str = "CPU_PINNED"
       /\ conv.in = 2 => conv.str = "GPU"
       /\ conv.in \notin 0..2 => conv.str = "<invalid>"
  /\ \A a, b \in EnumInputs :
       (a # b /\ (a \in 0..2 \/ b \in 0..2)) =>
         MemoryTypeString(a) # MemoryTypeString(b)

C13_Witness ==
  /\ conv.fn = "MemoryTypeString"
  /\ conv.in = 0 - 1
  /\ conv.str = "<invalid>"
  /\ conv.n = 2

\* C14: InferResponseComplete deletes the promise in the call that fulfils it
\* and in no other: while only null responses were fired the promise is
\* allocated, unfulfilled and never deleted; a call on the allocated promise
\* that deletes or fulfils it does both, once, and is a non-null firing;
\* after a non-null firing the promise is no longer allocated, and a further
\* non-null firing accesses the deleted promise; with at most one non-null
\* firing the deleted promise is never accessed and never deleted twice.
C14_PromiseFreedWhenFulfilled ==
  [][/\ NonNullFirings(fired') = {} =>
          (promise'.alive /\ promise'.fulfilled = 0 /\ promise'.deletes = 0)
     /\ NonNullFirings(fired') # {} => ~promise'.alive
     /\ Cardinality(NonNullFirings(fired')) <= 1 =>
          (~promise'.uaf /\ promise'.deletes <= 1)
     /\ (promise.alive /\ (promise'.deletes # promise.deletes
                             \/ promise'.fulfilled # promise.fulfilled)) =>
          /\ promise'.deletes = promise.deletes + 1
          /\ promise'.fulfilled = promise.fulfilled + 1
          /\ Len(fired') = Len(fired) + 1
          /\ fired'[Len(fired')] # nullptr
     /\ (~promise.alive /\ Len(fired') = Len(fired) + 1
           /\ fired'[Len(fired')] # nullptr) =>
          (promise'.uaf /\ promise'.deletes = promise.deletes + 1)]_vars

C14_Witness ==
  /\ fired = <<nullptr, "response1", "response2">>
  /\ promise.uaf
  /\ promise.deletes = 2
  /\ ~promise.alive

MatchingDeallocator(allocator) ==
  CASE allocator = "malloc" -> "free"
    [] allocator = "cudaHostAlloc" -> "cudaFreeHost"
    [] allocator = "cudaMalloc" -> "cudaFree"

\* C15 as stated: whenever ResponseRelease is given a buffer ResponseAlloc
\* handed back together with the actual memory type ResponseAlloc reported
\* for it, it invokes exactly the deallocator that matches the allocator
\* used (malloc: free, cudaHostAlloc: cudaFreeHost, cudaMalloc: cudaFree) and
\* does not reach the unexpected-buffer diagnostic, in both builds and for
\* every preferred memory type.
C15_PairingAgrees ==
  [][\A rec \in outstanding :
       (rec \notin outstanding' /\ last'.op = "ResponseRelease"
          /\ last'.buffer = rec.buffer
          /\ last'.memory_type = rec.memory_type) =>
         /\ DeallocatorsInvoked(last') = <<MatchingDeallocator(heap[rec.buffer].by)>>
         /\ last'.diag # "error: unexpected buffer allocated in CUDA managed memory"]_vars
====
